---- MODULE Spec2Model ----
(***************************************************************************)
(* Model of BotConfig (BotConfig.js): the bot configuration store, its     *)
(* connected services and the encryption of their sensitive properties.    *)
(*                                                                         *)
(* Strings the cipher works on are sequences: <<>> is JavaScript's         *)
(* undefined (also what reading an absent property gives), <<"">> is the   *)
(* empty string, <<p>> is the plaintext p and <<p, s1, .., sn>> is p       *)
(* encrypted with s1, then with s2, ... (aes192 keyed by the secret; a     *)
(* decryption under any other secret, or of a plaintext, throws).          *)
(***************************************************************************)
EXTENDS Integers, Sequences, FiniteSets, TLC

VARIABLES name, description, secretKey, services, internal,
          disk, savePc, saveFrame, lastErr

vars == <<name, description, secretKey, services, internal,
          disk, savePc, saveFrame, lastErr>>

----------------------------------------------------------------------------
(* Bounds and input sets *)

MaxLayers == 2

Secrets == {"", "abc", "wrong"}

Tokens == {"guid1"}

BotPath == "my.bot"

NoPath == ""

Undefined == <<>>

EmptyString == <<"">>

OK == "ok"

AlreadyConnected == "already connected"

NotFound == "was not found"

SecretMissing == "--secret is missing"

SecretIncorrect == "--secret is incorrect"

BadDecrypt == "bad decrypt"

IOError == "io error"

----------------------------------------------------------------------------
(* ServiceType and the services *)

ServiceType == {"endpoint", "abs", "luis", "qna", "dispatch"}

PropNames == {"appPassword", "appPassord", "authoringKey", "subscriptionKey"}

NoProps == [p \in PropNames |-> Undefined]

Service(type, id, nm, props) == [type |-> type, id |-> id, name |-> nm, props |-> props]

\* a descriptor of each type, carrying the credentials that type has
PropsOf(type, v) ==
    CASE type = "endpoint" -> [NoProps EXCEPT !["appPassword"] = v]
      [] type = "abs"      -> [NoProps EXCEPT !["appPassword"] = v]
      [] type = "luis"     -> [NoProps EXCEPT !["authoringKey"] = v, !["subscriptionKey"] = EmptyString]
      [] type = "qna"      -> [NoProps EXCEPT !["subscriptionKey"] = v]
      [] OTHER             -> [NoProps EXCEPT !["authoringKey"] = v, !["subscriptionKey"] = v]

\* descriptors given to connectService in the service-management runs
Descriptors ==
    { Service(t, i, n, PropsOf(t, <<"pw">>)) :
        t \in {"endpoint", "luis"}, i \in {"a", "b"}, n \in {"Foo", "Foo (2)"} }

\* descriptors given to connectService in the full runs
CredentialDescriptors ==
    { Service(t, "a", "Foo", PropsOf(t, <<"pw">>)) : t \in {"abs", "luis"} }

----------------------------------------------------------------------------
(* The store as one value, for the operators that model the methods *)

Bot == [name |-> name, description |-> description, secretKey |-> secretKey,
        services |-> services, internal |-> internal]

NewBotConfig(secret) ==
    [name |-> "", description |-> "", secretKey |-> EmptyString, services |-> <<>>,
     internal |-> [secretValidated |-> FALSE, secret |-> secret, location |-> NoPath]]

IsFalsyOrEmpty(value) == value = Undefined \/ value = EmptyString

internalEncrypt(b, value) == Append(value, b.internal.secret)

CanDecrypt(secret, encryptedValue) ==
    Len(encryptedValue) >= 2 /\ encryptedValue[Len(encryptedValue)] = secret

internalDecrypt(b, encryptedValue) == SubSeq(encryptedValue, 1, Len(encryptedValue) - 1)

getEncryptedProperties(type) ==
    CASE type = "endpoint" -> <<"appPassword">>
      [] type = "abs"      -> <<"appPassord">>
      [] type = "luis"     -> <<"authoringKey", "subscriptionKey">>
      [] type = "qna"      -> <<"subscriptionKey">>
      [] OTHER             -> <<"authoringKey", "subscriptionKey">>

\* the verifier is created before the secret is looked at
validateSecretKey_VerifierFirst(b, uuid) ==
    IF b.internal.secretValidated THEN [bot |-> b, err |-> OK]
    ELSE IF IsFalsyOrEmpty(b.secretKey)
         THEN IF b.internal.secret = ""
              THEN [bot |-> [b EXCEPT !.secretKey = internalEncrypt(b, <<uuid>>)],
                    err |-> SecretMissing]
              ELSE [bot |-> [b EXCEPT !.secretKey = internalEncrypt(b, <<uuid>>),
                                      !.internal.secretValidated = TRUE],
                    err |-> OK]
    ELSE IF b.internal.secret = "" THEN [bot |-> b, err |-> SecretMissing]
    ELSE IF CanDecrypt(b.internal.secret, b.secretKey)
         THEN [bot |-> [b EXCEPT !.internal.secretValidated = TRUE], err |-> OK]
    ELSE [bot |-> b, err |-> SecretIncorrect]

\* the flag is set before the verifier is decrypted
validateSecretKey_FlagFirst(b, uuid) ==
    IF b.internal.secretValidated THEN [bot |-> b, err |-> OK]
    ELSE IF b.internal.secret = "" THEN [bot |-> b, err |-> SecretMissing]
    ELSE IF IsFalsyOrEmpty(b.secretKey)
         THEN [bot |-> [b EXCEPT !.secretKey = internalEncrypt(b, <<uuid>>),
                                 !.internal.secretValidated = TRUE],
               err |-> OK]
    ELSE [bot |-> [b EXCEPT !.internal.secretValidated = TRUE],
          err |-> IF CanDecrypt(b.internal.secret, b.secretKey) THEN OK ELSE SecretIncorrect]

\* the first validation marks the secret validated but stores no verifier
validateSecretKey_NoVerifier(b, uuid) ==
    IF b.internal.secretValidated THEN [bot |-> b, err |-> OK]
    ELSE IF b.internal.secret = "" THEN [bot |-> b, err |-> SecretMissing]
    ELSE IF IsFalsyOrEmpty(b.secretKey) \/ CanDecrypt(b.internal.secret, b.secretKey)
         THEN [bot |-> [b EXCEPT !.internal.secretValidated = TRUE], err |-> OK]
    ELSE [bot |-> b, err |-> SecretIncorrect]

validateSecretKey(b, uuid) ==
    IF b.internal.secretValidated THEN [bot |-> b, err |-> OK]
    ELSE IF b.internal.secret = "" THEN [bot |-> b, err |-> SecretMissing]
    ELSE IF IsFalsyOrEmpty(b.secretKey)
         THEN [bot |-> [b EXCEPT !.secretKey = internalEncrypt(b, <<uuid>>),
                                 !.internal.secretValidated = TRUE],
               err |-> OK]
    ELSE IF CanDecrypt(b.internal.secret, b.secretKey)
         THEN [bot |-> [b EXCEPT !.internal.secretValidated = TRUE], err |-> OK]
    ELSE [bot |-> b, err |-> SecretIncorrect]

\* encryptValue / decryptValue: [bot, value, err]; the uuid is only used when
\* validateSecretKey has to create the verifier
encryptValue(b, value) ==
    IF IsFalsyOrEmpty(value) THEN [bot |-> b, value |-> value, err |-> OK]
    ELSE IF Len(b.secretKey) > 0 /\ b.secretKey # EmptyString
         THEN LET v == validateSecretKey(b, "unused")
              IN  IF v.err # OK THEN [bot |-> v.bot, value |-> value, err |-> v.err]
                  ELSE [bot |-> v.bot, value |-> internalEncrypt(v.bot, value), err |-> OK]
    ELSE [bot |-> b, value |-> value, err |-> OK]

decryptValue(b, encryptedValue) ==
    IF IsFalsyOrEmpty(encryptedValue) THEN [bot |-> b, value |-> encryptedValue, err |-> OK]
    ELSE IF Len(b.secretKey) > 0 /\ b.secretKey # EmptyString
         THEN LET v == validateSecretKey(b, "unused")
              IN  IF v.err # OK THEN [bot |-> v.bot, value |-> encryptedValue, err |-> v.err]
                  ELSE IF CanDecrypt(v.bot.internal.secret, encryptedValue)
                       THEN [bot |-> v.bot, value |-> internalDecrypt(v.bot, encryptedValue), err |-> OK]
                  ELSE [bot |-> v.bot, value |-> encryptedValue, err |-> BadDecrypt]
    ELSE [bot |-> b, value |-> encryptedValue, err |-> OK]

\* the loop of encryptService over the encrypted properties of service n, from property i
RECURSIVE encryptProps(_, _, _, _)
encryptProps(b, n, encryptedProperties, i) ==
    IF i > Len(encryptedProperties) THEN [bot |-> b, err |-> OK]
    ELSE LET prop == encryptedProperties[i]
             r == encryptValue(b, b.services[n].props[prop])
         IN  IF r.err # OK THEN [bot |-> r.bot, err |-> r.err]
             ELSE encryptProps([r.bot EXCEPT !.services[n].props[prop] = r.value],
                               n, encryptedProperties, i + 1)

encryptService(b, n) ==
    encryptProps(b, n, getEncryptedProperties(b.services[n].type), 1)

RECURSIVE decryptProps(_, _, _, _)
decryptProps(b, n, encryptedProperties, i) ==
    IF i > Len(encryptedProperties) THEN [bot |-> b, err |-> OK]
    ELSE LET prop == encryptedProperties[i]
             r == decryptValue(b, b.services[n].props[prop])
         IN  IF r.err # OK THEN [bot |-> r.bot, err |-> r.err]
             ELSE decryptProps([r.bot EXCEPT !.services[n].props[prop] = r.value],
                               n, encryptedProperties, i + 1)

decryptService(b, n) ==
    decryptProps(b, n, getEncryptedProperties(b.services[n].type), 1)

\* the loops of encryptAll / decryptAll, from service n
RECURSIVE encryptFrom(_, _)
encryptFrom(b, n) ==
    IF n > Len(b.services) THEN [bot |-> b, err |-> OK]
    ELSE LET r == encryptService(b, n)
         IN  IF r.err # OK THEN r ELSE encryptFrom(r.bot, n + 1)

encryptAll(b) == encryptFrom(b, 1)

RECURSIVE decryptFrom(_, _)
decryptFrom(b, n) ==
    IF n > Len(b.services) THEN [bot |-> b, err |-> OK]
    ELSE LET r == decryptService(b, n)
         IN  IF r.err # OK THEN r ELSE decryptFrom(r.bot, n + 1)

decryptAll(b) == decryptFrom(b, 1)

----------------------------------------------------------------------------
(* Service management *)

\* the second filter compares the id with the type of the new service
HasService_IdAgainstType(svcs, type, id) ==
    \E n \in 1..Len(svcs) : svcs[n].type = type /\ svcs[n].id = type

HasService(svcs, type, id) ==
    \E n \in 1..Len(svcs) : svcs[n].type = type /\ svcs[n].id = id

HasName(svcs, nm) == \E n \in 1..Len(svcs) : svcs[n].name = nm

\* the suffix without the separating blank
SuffixedName_NoBlank(nm, nameCount) == nm \o "(" \o ToString(nameCount) \o ")"

\* `${newService.name} (${nameCount})`
SuffixedName(nm, nameCount) == nm \o " (" \o ToString(nameCount) \o ")"

\* one suffix is tried and taken without looking whether it is in use
UniqueName_SingleTry(svcs, nm, nameCount) ==
    IF ~(\E n \in 1..Len(svcs) : svcs[n].name = nm) THEN nm
    ELSE nm \o " (" \o ToString(nameCount + 1) \o ")"

\* the while (true) loop of connectService
RECURSIVE UniqueName(_, _, _)
UniqueName(svcs, nm, nameCount) ==
    LET candidate == IF nameCount > 1 THEN SuffixedName(nm, nameCount) ELSE nm
    IN  IF ~HasName(svcs, candidate) THEN candidate
        ELSE UniqueName(svcs, nm, nameCount + 1)

\* the service is pushed before the duplicate is reported
connectService_PushFirst(b, newService) ==
    [bot |-> [b EXCEPT !.services = Append(@, newService)],
     err |-> IF \E n \in 1..Len(b.services) :
                   b.services[n].type = newService.type /\ b.services[n].id = newService.id
             THEN AlreadyConnected ELSE OK]

connectService(b, newService) ==
    IF HasService(b.services, newService.type, newService.id)
    THEN [bot |-> b, err |-> AlreadyConnected]
    ELSE [bot |-> [b EXCEPT !.services =
                     Append(@, [newService EXCEPT !.name = UniqueName(b.services, newService.name, 1)])],
          err |-> OK]

RemoveAt(svs, i) == SubSeq(svs, 1, i - 1) \o SubSeq(svs, i + 1, Len(svs))

\* every service that matches is removed, not only the first
disconnectByNameOrIdFrom_AllMatches(b, nameOrId, i) ==
    LET Differs(sv) == sv.id # nameOrId /\ sv.name # nameOrId
        kept == SelectSeq(b.services, Differs)
    IN  IF Len(kept) = Len(b.services) THEN [bot |-> b, err |-> NotFound]
        ELSE [bot |-> [b EXCEPT !.services = kept], err |-> OK]

RECURSIVE disconnectByNameOrIdFrom(_, _, _)
disconnectByNameOrIdFrom(b, nameOrId, i) ==
    IF i > Len(b.services) THEN [bot |-> b, err |-> NotFound]
    ELSE IF b.services[i].id = nameOrId \/ b.services[i].name = nameOrId
         THEN [bot |-> [b EXCEPT !.services = RemoveAt(@, i)], err |-> OK]
    ELSE disconnectByNameOrIdFrom(b, nameOrId, i + 1)

\* the loop ends without the throw, as in disconnectService
disconnectServiceByNameOrId_Silent(b, nameOrId) ==
    [bot |-> disconnectByNameOrIdFrom(b, nameOrId, 1).bot, err |-> OK]

disconnectServiceByNameOrId(b, nameOrId) == disconnectByNameOrIdFrom(b, nameOrId, 1)

RECURSIVE disconnectFrom(_, _, _, _)
disconnectFrom(b, type, id, i) ==
    IF i > Len(b.services) THEN [bot |-> b, err |-> OK]
    ELSE IF b.services[i].type = type /\ b.services[i].id = id
         THEN [bot |-> [b EXCEPT !.services = RemoveAt(@, i)], err |-> OK]
    ELSE disconnectFrom(b, type, id, i + 1)

\* the loop ends with the throw of disconnectServiceByNameOrId
disconnectService_Throws(b, type, id) ==
    [bot |-> disconnectFrom(b, type, id, 1).bot,
     err |-> IF \E n \in 1..Len(b.services) :
                   b.services[n].type = type /\ b.services[n].id = id
             THEN OK ELSE NotFound]

disconnectService(b, type, id) == disconnectFrom(b, type, id, 1)

clearSecret(b, uuid) ==
    LET v == validateSecretKey(b, uuid)
    IN  IF v.err # OK THEN v
        ELSE [bot |-> [v.bot EXCEPT !.secretKey = EmptyString], err |-> OK]

----------------------------------------------------------------------------
(* Load and Save *)

\* what writeJson is given at Save; reading it back gives the same document
\* (a property that is undefined is not written, and reads back as undefined)
BotFile(nm, descr, key, svcs) ==
    [name |-> nm, description |-> descr, secretKey |-> key, services |-> svcs,
     internal |-> <<>>]

\* a file that was not written by Save: it also carries an "internal" key
ExternalFiles ==
    { [name |-> "ext", description |-> "", secretKey |-> <<"guid1", "abc">>,
       services |-> << Service("luis", "a", "Foo", PropsOf("luis", <<"pw", "abc">>)) >>,
       internal |-> << [secretValidated |-> TRUE, secret |-> "wrong", location |-> NoPath] >>] }

\* Load that never decrypts
Load_NoDecrypt(file, botpath, secret) ==
    [bot |-> [name |-> file.name, description |-> file.description,
              secretKey |-> file.secretKey, services |-> file.services,
              internal |-> [secretValidated |-> FALSE, secret |-> secret,
                            location |-> botpath]],
     err |-> OK]

\* Load that decrypts whatever the secret and the verifier are
Load_AlwaysDecrypt(file, botpath, secret) ==
    decryptAll([name |-> file.name, description |-> file.description,
                secretKey |-> file.secretKey, services |-> file.services,
                internal |-> [secretValidated |-> FALSE, secret |-> secret,
                              location |-> botpath]])

Load(file, botpath, secret) ==
    LET assigned == [NewBotConfig(secret) EXCEPT
                        !.name = file.name,
                        !.description = file.description,
                        !.secretKey = file.secretKey,
                        !.services = file.services,
                        !.internal = IF file.internal = <<>> THEN @ ELSE file.internal[1]]
        bot == [assigned EXCEPT !.internal.location = botpath]
        hasSecret == secret # "" /\ ~IsFalsyOrEmpty(bot.secretKey)
    IN  IF hasSecret THEN decryptAll(bot) ELSE [bot |-> bot, err |-> OK]

SaveHasSecret(b) == ~IsFalsyOrEmpty(b.secretKey)

\* Save up to the call of writeJson
SaveBegin(b) == IF SaveHasSecret(b) THEN encryptAll(b) ELSE [bot |-> b, err |-> OK]

\* the whole object is written, its internal part included
SaveJson_WholeObject(b) ==
    [BotFile(b.name, b.description, b.secretKey, b.services) EXCEPT !.internal = <<b.internal>>]

SaveJson(b) == BotFile(b.name, b.description, b.secretKey, b.services)

SaveTarget(b, botpath) == IF botpath # NoPath THEN botpath ELSE b.internal.location

\* Save that does not decrypt after the write
SaveEnd_NoDecrypt(b, hasSecret) == [bot |-> b, err |-> OK]

\* Save after the write has completed
SaveEnd(b, hasSecret) == IF hasSecret THEN decryptAll(b) ELSE [bot |-> b, err |-> OK]

\* a whole Save whose write succeeds, with nothing running in between
Save(b, botpath) ==
    LET e == SaveBegin(b)
    IN  IF e.err # OK THEN [bot |-> e.bot, file |-> <<>>, err |-> e.err]
        ELSE IF SaveTarget(e.bot, botpath) = NoPath
             THEN [bot |-> e.bot, file |-> <<>>, err |-> IOError]
        ELSE LET d == SaveEnd(e.bot, SaveHasSecret(b))
             IN  [bot |-> d.bot, file |-> <<SaveJson(e.bot)>>, err |-> d.err]

----------------------------------------------------------------------------
(* The state machine *)

NoFrame == [hasSecret |-> FALSE, target |-> NoPath, content |-> <<>>]

Init ==
    /\ \E secret \in Secrets :
          /\ name = NewBotConfig(secret).name
          /\ description = NewBotConfig(secret).description
          /\ secretKey = NewBotConfig(secret).secretKey
          /\ services = NewBotConfig(secret).services
          /\ internal = NewBotConfig(secret).internal
    /\ disk = <<>>
    /\ savePc = "idle"
    /\ saveFrame = NoFrame
    /\ lastErr = OK

SetBot(b) ==
    /\ name' = b.name
    /\ description' = b.description
    /\ secretKey' = b.secretKey
    /\ services' = b.services
    /\ internal' = b.internal

Returns(r) ==
    /\ SetBot(r.bot)
    /\ lastErr' = r.err

Layers(value) == IF Len(value) = 0 THEN 0 ELSE Len(value) - 1

\* no property of a service in memory is encrypted MaxLayers times yet
CanEncryptMore ==
    \A n \in 1..Len(services) : \A p \in PropNames : Layers(services[n].props[p]) < MaxLayers

connectServiceCall(newService) ==
    /\ savePc = "idle"
    /\ Returns(connectService(Bot, newService))
    /\ UNCHANGED <<disk, savePc, saveFrame>>

disconnectServiceCall(type, id) ==
    /\ savePc = "idle"
    /\ Returns(disconnectService(Bot, type, id))
    /\ UNCHANGED <<disk, savePc, saveFrame>>

disconnectServiceByNameOrIdCall(nameOrId) ==
    /\ savePc = "idle"
    /\ Returns(disconnectServiceByNameOrId(Bot, nameOrId))
    /\ UNCHANGED <<disk, savePc, saveFrame>>

validateSecretKeyCall(uuid) ==
    /\ savePc = "idle"
    /\ Returns(validateSecretKey(Bot, uuid))
    /\ UNCHANGED <<disk, savePc, saveFrame>>

clearSecretCall(uuid) ==
    /\ savePc = "idle"
    /\ Returns(clearSecret(Bot, uuid))
    /\ UNCHANGED <<disk, savePc, saveFrame>>

encryptAllCall ==
    /\ savePc = "idle"
    /\ CanEncryptMore
    /\ Returns(encryptAll(Bot))
    /\ UNCHANGED <<disk, savePc, saveFrame>>

decryptAllCall ==
    /\ savePc = "idle"
    /\ Returns(decryptAll(Bot))
    /\ UNCHANGED <<disk, savePc, saveFrame>>

\* Load returns a new instance, which becomes the store under observation;
\* a Load that throws returns none
LoadCall(secret) ==
    /\ savePc = "idle"
    /\ IF disk = <<>>
       THEN /\ lastErr' = IOError
            /\ UNCHANGED <<name, description, secretKey, services, internal>>
       ELSE LET r == Load(disk[1], BotPath, secret)
            IN  /\ lastErr' = r.err
                /\ IF r.err = OK THEN SetBot(r.bot)
                   ELSE UNCHANGED <<name, description, secretKey, services, internal>>
    /\ UNCHANGED <<disk, savePc, saveFrame>>

\* Save runs to its await of writeJson, or throws before it
SaveCall(botpath) ==
    /\ savePc = "idle"
    /\ CanEncryptMore
    /\ LET r == SaveBegin(Bot)
       IN  /\ SetBot(r.bot)
           /\ IF r.err # OK
              THEN /\ lastErr' = r.err
                   /\ UNCHANGED <<savePc, saveFrame>>
              ELSE /\ lastErr' = "pending"
                   /\ savePc' = "writing"
                   /\ saveFrame' = [hasSecret |-> SaveHasSecret(Bot),
                                    target |-> SaveTarget(r.bot, botpath),
                                    content |-> <<SaveJson(r.bot)>>]
    /\ UNCHANGED disk

\* the write completes and Save resumes
SaveWritten ==
    /\ savePc = "writing"
    /\ saveFrame.target # NoPath
    /\ disk' = saveFrame.content
    /\ Returns(SaveEnd(Bot, saveFrame.hasSecret))
    /\ savePc' = "idle"
    /\ saveFrame' = NoFrame

\* the write fails and Save throws
SaveWriteFailed ==
    /\ savePc = "writing"
    /\ lastErr' = IOError
    /\ savePc' = "idle"
    /\ saveFrame' = NoFrame
    /\ UNCHANGED <<name, description, secretKey, services, internal, disk>>

\* the file is replaced by one that Save did not write
FileEdited(file) ==
    /\ savePc = "idle"
    /\ disk' = <<file>>
    /\ UNCHANGED <<name, description, secretKey, services, internal,
                   savePc, saveFrame, lastErr>>

Next ==
    \/ \E d \in CredentialDescriptors : connectServiceCall(d)
    \/ \E t \in {"abs", "luis"}, i \in {"a", "b"} : disconnectServiceCall(t, i)
    \/ \E k \in {"a", "Foo", "Foo (2)"} : disconnectServiceByNameOrIdCall(k)
    \/ \E u \in Tokens : validateSecretKeyCall(u)
    \/ \E u \in Tokens : clearSecretCall(u)
    \/ encryptAllCall
    \/ decryptAllCall
    \/ \E s \in Secrets : LoadCall(s)
    \/ \E p \in {NoPath, BotPath} : SaveCall(p)
    \/ SaveWritten
    \/ SaveWriteFailed
    \/ \E f \in ExternalFiles : FileEdited(f)

Spec == Init /\ [][Next]_vars

\* service management only, from the empty store
NextServices ==
    \/ \E d \in Descriptors : connectServiceCall(d)
    \/ \E t \in {"endpoint", "luis", "qna"}, i \in {"a", "b"} : disconnectServiceCall(t, i)
    \/ \E k \in {"a", "b", "Foo", "Foo (2)", "Foo (3)", "Bar"} : disconnectServiceByNameOrIdCall(k)

SpecServices == Init /\ [][NextServices]_vars

\* calls made by the program while a Save is suspended on its write
connectServiceWhileSaving(newService) ==
    /\ savePc = "writing"
    /\ Returns(connectService(Bot, newService))
    /\ UNCHANGED <<disk, savePc, saveFrame>>

disconnectServiceWhileSaving(type, id) ==
    /\ savePc = "writing"
    /\ Returns(disconnectService(Bot, type, id))
    /\ UNCHANGED <<disk, savePc, saveFrame>>

NextInterleaved ==
    \/ Next
    \/ \E d \in CredentialDescriptors : connectServiceWhileSaving(d)
    \/ \E t \in {"abs", "luis"} : disconnectServiceWhileSaving(t, "a")

SpecInterleaved == Init /\ [][NextInterleaved]_vars

\* the operations of a store used one call at a time, on files written by Save
NextOperations ==
    \/ \E d \in CredentialDescriptors : connectServiceCall(d)
    \/ \E t \in {"abs", "luis"}, i \in {"a", "b"} : disconnectServiceCall(t, i)
    \/ \E k \in {"a", "Foo", "Foo (2)"} : disconnectServiceByNameOrIdCall(k)
    \/ \E u \in Tokens : validateSecretKeyCall(u)
    \/ \E u \in Tokens : clearSecretCall(u)
    \/ \E s \in Secrets : LoadCall(s)
    \/ \E p \in {NoPath, BotPath} : SaveCall(p)
    \/ SaveWritten
    \/ SaveWriteFailed

SpecOperations == Init /\ [][NextOperations]_vars

TypeOK == savePc \in {"idle", "writing"}

----------------------------------------------------------------------------
(* Service management: uniqueness and naming *)

SameTypeAndId(s, t) == s.type = t.type /\ s.id = t.id

\* C1: from the empty store, after any sequence of connectService,
\* disconnectService and disconnectServiceByNameOrId calls, no two services
\* of the store have the same (type, id).
C1_UniqueTypeId ==
    \A i, j \in 1..Len(services) :
        i # j => ~SameTypeAndId(services[i], services[j])

\* a duplicate was refused while two services share an id under different types
C1_Witness ==
    /\ lastErr = AlreadyConnected
    /\ \E i, j \in 1..Len(services) :
          services[i].id = services[j].id /\ services[i].type # services[j].type

\* C2: from the empty store, after any sequence of connectService,
\* disconnectService and disconnectServiceByNameOrId calls, no two services
\* of the store have the same name, whatever their types.
C2_UniqueName ==
    \A i, j \in 1..Len(services) :
        i # j => services[i].name # services[j].name

\* a service of another type was renamed because its name was taken
C2_Witness ==
    \E i, j \in 1..Len(services) :
        /\ services[i].type # services[j].type
        /\ services[i].name = "Foo"
        /\ services[j].name = "Foo (3)"

\* C3: connectService of a descriptor whose (type, id) is already in the
\* store fails with the already-connected error, whatever the two names,
\* and leaves the list of services as it was.
C3_DuplicateRejected ==
    \A d \in Descriptors :
        (\E n \in 1..Len(services) : SameTypeAndId(services[n], d)) =>
            /\ connectService(Bot, d).err = AlreadyConnected
            /\ connectService(Bot, d).bot.services = services

\* a duplicate was refused, and a descriptor of that (type, id) with another
\* name than the stored one is refused as well
C3_Witness ==
    /\ lastErr = AlreadyConnected
    /\ \E d \in Descriptors : \E n \in 1..Len(services) :
          /\ SameTypeAndId(services[n], d)
          /\ services[n].name # d.name
          /\ connectService(Bot, d).err = AlreadyConnected

NameInUse(nm) == \E n \in 1..Len(services) : services[n].name = nm

\* the name the claim expects for a requested name nm
ExpectedName(nm) ==
    IF ~NameInUse(nm) THEN nm
    ELSE LET k == CHOOSE k \in 2..(Len(services) + 2) :
                     /\ ~NameInUse(nm \o " (" \o ToString(k) \o ")")
                     /\ \A j \in 2..(k - 1) : NameInUse(nm \o " (" \o ToString(j) \o ")")
         IN  nm \o " (" \o ToString(k) \o ")"

FooOf(type, id) == Service(type, id, "Foo", PropsOf(type, <<"pw">>))

\* C4: a successful connectService stores the requested name N when it is
\* free and otherwise "N (k)" for the least k >= 2 whose "N (k)" is free,
\* after the services already there; three services named "Foo" are stored
\* as "Foo", "Foo (2)", "Foo (3)" in that order.
C4_StoredName ==
    /\ \A d \in Descriptors :
          ~(\E n \in 1..Len(services) : SameTypeAndId(services[n], d)) =>
              LET r == connectService(Bot, d)
              IN  /\ r.err = OK
                  /\ r.bot.services =
                        Append(services, [d EXCEPT !.name = ExpectedName(d.name)])
    /\ services = <<>> =>
          LET b1 == connectService(Bot, FooOf("endpoint", "a")).bot
              b2 == connectService(b1, FooOf("luis", "a")).bot
              b3 == connectService(b2, FooOf("endpoint", "b")).bot
          IN  /\ Len(b3.services) = 3
              /\ [n \in 1..3 |-> b3.services[n].name] = <<"Foo", "Foo (2)", "Foo (3)">>

\* three services are stored as "Foo", "Foo (2)", "Foo (3)"
C4_Witness ==
    /\ Len(services) = 3
    /\ [n \in 1..3 |-> services[n].name] = <<"Foo", "Foo (2)", "Foo (3)">>
    /\ lastErr = OK

----------------------------------------------------------------------------
(* Encryption at rest, Save and Load *)

\* the sensitive fields of each type of service
SensitiveFields(type) ==
    CASE type = "endpoint" -> {"appPassword"}
      [] type = "abs"      -> {"appPassword"}
      [] type = "luis"     -> {"authoringKey", "subscriptionKey"}
      [] type = "qna"      -> {"subscriptionKey"}
      [] OTHER             -> {"authoringKey", "subscriptionKey"}

\* every non-empty sensitive field of the file is a ciphertext under secret
EncryptedAtRest(file, secret) ==
    \A n \in 1..Len(file.services) :
        \A p \in SensitiveFields(file.services[n].type) :
            \/ IsFalsyOrEmpty(file.services[n].props[p])
            \/ CanDecrypt(secret, file.services[n].props[p])

\* C5: when the store has a non-empty secret, every Save that succeeds
\* writes a file whose non-empty sensitive fields are all ciphertext under
\* that secret, also when the store has no verifier yet.
C5_SavedFileIsEncrypted ==
    [][(savePc = "writing" /\ savePc' = "idle" /\ lastErr' = OK
            /\ internal.secret # "")
          => EncryptedAtRest(disk'[1], internal.secret)]_vars

\* C6: on a store with a validated secret and a non-empty verifier,
\* encryptAll encrypts of each service exactly the sensitive fields of its
\* type: no non-empty sensitive field stays plaintext, no other field changes.
C6_EncryptsSensitiveFields ==
    (internal.secretValidated /\ internal.secret # "" /\ ~IsFalsyOrEmpty(secretKey)) =>
        LET r == encryptAll(Bot)
        IN  /\ r.err = OK
            /\ Len(r.bot.services) = Len(services)
            /\ \A n \in 1..Len(services) :
                  /\ r.bot.services[n].type = services[n].type
                  /\ r.bot.services[n].id = services[n].id
                  /\ r.bot.services[n].name = services[n].name
                  /\ \A p \in PropNames :
                        r.bot.services[n].props[p] =
                           IF p \in SensitiveFields(services[n].type)
                                 /\ ~IsFalsyOrEmpty(services[n].props[p])
                           THEN Append(services[n].props[p], internal.secret)
                           ELSE services[n].props[p]

\* one service of each type, for the stores that hold a single service
TypeDescriptors ==
    { Service(t, "a", "Foo", PropsOf(t, <<"pw">>)) : t \in ServiceType }

\* the store with its services replaced
WithServices(svcs) == [Bot EXCEPT !.services = svcs]

ServiceLists == {services} \cup { <<d>> : d \in TypeDescriptors }

\* C7: after a Save that completes successfully, the name, the description,
\* the verifier and the services in memory are what they were before it.
C7_SaveLeavesMemory ==
    savePc = "idle" =>
        \A svcs \in ServiceLists : \A p \in {NoPath, BotPath} :
            LET b == WithServices(svcs)
                r == Save(b, p)
            IN  r.err = OK =>
                    /\ r.bot.name = b.name
                    /\ r.bot.description = b.description
                    /\ r.bot.secretKey = b.secretKey
                    /\ r.bot.services = b.services

HoldsPlaintext(svcs) ==
    \E n \in 1..Len(svcs) : \E p \in PropNames :
        Len(svcs[n].props[p]) = 1 /\ svcs[n].props[p] # EmptyString

HoldsCiphertext(svcs) ==
    \E n \in 1..Len(svcs) : \E p \in PropNames : Len(svcs[n].props[p]) > 1

\* a Save has written ciphertext and the memory holds the plaintext again
C7_Witness ==
    /\ savePc = "idle"
    /\ lastErr = OK
    /\ disk = Save(Bot, BotPath).file
    /\ disk # <<>>
    /\ HoldsCiphertext(disk[1].services)
    /\ HoldsPlaintext(services)
    /\ ~HoldsCiphertext(services)

\* the secret of the store is the one its verifier was made with, or the
\* store has no verifier
SecretMatchesVerifier(b) ==
    IsFalsyOrEmpty(b.secretKey) \/ CanDecrypt(b.internal.secret, b.secretKey)

\* C8: for a store with a validated non-empty secret, Save followed by Load
\* of the written file with the same secret gives the same list of services,
\* in the same order and with the same values.
C8_SaveLoadRoundTrip ==
    (savePc = "idle" /\ internal.secretValidated /\ internal.secret # ""
        /\ SecretMatchesVerifier(Bot)) =>
        \A svcs \in ServiceLists :
            LET b == WithServices(svcs)
                w == Save(b, BotPath)
            IN  /\ w.err = OK
                /\ Load(w.file[1], BotPath, internal.secret).err = OK
                /\ Load(w.file[1], BotPath, internal.secret).bot.services = svcs

\* the store was loaded, with its secret, from a file that Save wrote with
\* ciphertext in it
C8_Witness ==
    /\ savePc = "idle"
    /\ internal.secretValidated
    /\ internal.secret # ""
    /\ internal.location = BotPath
    /\ disk # <<>>
    /\ disk[1].internal = <<>>
    /\ HoldsCiphertext(disk[1].services)
    /\ Load(disk[1], BotPath, internal.secret).err = OK
    /\ Load(disk[1], BotPath, internal.secret).bot.services = services
    /\ HoldsPlaintext(services)
    /\ ~HoldsCiphertext(services)

\* C9: on a store with a non-empty secret, no verifier and no validation
\* done, validateSecretKey succeeds, stores as verifier the encryption of
\* the fresh token under the secret, sets the validated flag and changes
\* nothing else.
C9_FirstValidation ==
    (internal.secret # "" /\ IsFalsyOrEmpty(secretKey) /\ ~internal.secretValidated) =>
        \A u \in Tokens :
            LET r == validateSecretKey(Bot, u)
            IN  /\ r.err = OK
                /\ r.bot.secretKey = <<u, internal.secret>>
                /\ ~IsFalsyOrEmpty(r.bot.secretKey)
                /\ r.bot.internal = [internal EXCEPT !.secretValidated = TRUE]
                /\ r.bot.name = name
                /\ r.bot.description = description
                /\ r.bot.services = services

\* a store that was never loaded nor saved has got its verifier
C9_Witness ==
    /\ disk = <<>>
    /\ internal.location = NoPath
    /\ internal.secretValidated
    /\ internal.secret # ""
    /\ \E u \in Tokens : secretKey = <<u, internal.secret>>
    /\ lastErr = OK

\* C10: Load with a non-empty secret of a file with a non-empty verifier
\* that the secret does not decrypt fails with the secret-incorrect error,
\* whatever the services of the file (stated of the files that hold the
\* persisted fields only: name, description, verifier and services).
C10_LoadValidatesFirst ==
    (disk # <<>> /\ disk[1].internal = <<>> /\ ~IsFalsyOrEmpty(disk[1].secretKey)) =>
        \A s \in Secrets \ {""} :
            ~CanDecrypt(s, disk[1].secretKey) =>
                Load(disk[1], BotPath, s).err = SecretIncorrect

----------------------------------------------------------------------------
(* The secret: validateSecretKey, clearSecret, encryptAll and decryptAll *)

\* C11: validateSecretKey on a store that was given no secret and is not
\* validated fails with the secret-missing error and leaves the verifier,
\* the validated flag and the services as they were: no verifier is made.
C11_NoSecretNoValidation ==
    (internal.secret = "" /\ ~internal.secretValidated) =>
        \A u \in Tokens :
            /\ validateSecretKey(Bot, u).err = SecretMissing
            /\ validateSecretKey(Bot, u).bot = Bot

\* validateSecretKey has failed on a store without secret and without verifier
C11_Witness ==
    /\ lastErr = SecretMissing
    /\ internal.secret = ""
    /\ ~internal.secretValidated
    /\ secretKey = EmptyString
    /\ services # <<>>

\* C12: after a clearSecret that succeeds, the secret of the store and its
\* verifier are both empty; a clearSecret whose validation fails raises and
\* leaves the secret and the verifier unchanged.
C12_ClearSecretEmptiesBoth ==
    \A u \in Tokens :
        LET r == clearSecret(Bot, u)
        IN  IF r.err = OK
            THEN r.bot.internal.secret = "" /\ IsFalsyOrEmpty(r.bot.secretKey)
            ELSE r.bot.internal.secret = internal.secret /\ r.bot.secretKey = secretKey

HasNonEmptySensitive(svcs) ==
    \E n \in 1..Len(svcs) : \E p \in SensitiveFields(svcs[n].type) :
        ~IsFalsyOrEmpty(svcs[n].props[p])

\* C13: after a clearSecret that succeeds, validateSecretKey, a second
\* clearSecret, and encryptAll and decryptAll over a service with a non-empty
\* sensitive field all raise the secret-missing error.
C13_SecretRequiredAfterClear ==
    \A u \in Tokens :
        clearSecret(Bot, u).err = OK =>
            LET cleared == clearSecret(Bot, u).bot
            IN  /\ validateSecretKey(cleared, u).err = SecretMissing
                /\ clearSecret(cleared, u).err = SecretMissing
                /\ HasNonEmptySensitive(cleared.services) =>
                      /\ encryptAll(cleared).err = SecretMissing
                      /\ decryptAll(cleared).err = SecretMissing

\* C14: on a store that was given no secret, encryptAll and decryptAll over
\* a service with a non-empty sensitive field raise the secret-missing
\* error, with or without a verifier.
C14_NoSecretNoCrypto ==
    (internal.secret = "" /\ ~internal.secretValidated
        /\ HasNonEmptySensitive(services)) =>
            /\ encryptAll(Bot).err = SecretMissing
            /\ decryptAll(Bot).err = SecretMissing

----------------------------------------------------------------------------
(* Disconnecting what is not there *)

\* C15: disconnectService(type, id) when no service has that (type, id)
\* does not raise and leaves the list of services as it was, also when a
\* service has the id under another type or the type under another id.
C15_DisconnectAbsent ==
    \A t \in ServiceType, i \in {"a", "b", "c"} :
        ~(\E n \in 1..Len(services) : services[n].type = t /\ services[n].id = i) =>
            /\ disconnectService(Bot, t, i).err = OK
            /\ disconnectService(Bot, t, i).bot = Bot

\* a (type, id) that is not connected, while its id is connected under
\* another type and its type under another id, and disconnecting it changes
\* nothing
C15_Witness ==
    /\ lastErr = OK
    /\ Len(services) >= 2
    /\ \E t \in ServiceType, i \in {"a", "b"} :
          /\ ~(\E n \in 1..Len(services) : services[n].type = t /\ services[n].id = i)
          /\ \E n \in 1..Len(services) : services[n].type # t /\ services[n].id = i
          /\ \E n \in 1..Len(services) : services[n].type = t /\ services[n].id # i
          /\ disconnectService(Bot, t, i).bot.services = services

NameOrIdTokens == {"a", "b", "c", "Foo", "Foo (2)", "Foo (3)", "Bar"}

\* C16: disconnectServiceByNameOrId(token) when no service has an id or a
\* name equal to the token raises the not-found error and leaves the list of
\* services as it was.
C16_DisconnectUnknown ==
    \A k \in NameOrIdTokens :
        ~(\E n \in 1..Len(services) : services[n].id = k \/ services[n].name = k) =>
            /\ disconnectServiceByNameOrId(Bot, k).err = NotFound
            /\ disconnectServiceByNameOrId(Bot, k).bot = Bot

\* a disconnect by name or id has failed on a store that holds services
C16_Witness ==
    /\ lastErr = NotFound
    /\ Len(services) >= 2

----------------------------------------------------------------------------
(* What Save writes, and what it leaves in memory *)

\* C17: every file that Save writes holds the name, the description, the
\* verifier and the services of the store and nothing else: the secret, the
\* validated flag and the location are not written.
C17_OnlyPersistedFields ==
    [][(savePc = "writing" /\ savePc' = "idle" /\ lastErr' # IOError) =>
          /\ disk' # <<>>
          /\ DOMAIN disk'[1] = {"name", "description", "secretKey", "services", "internal"}
          /\ disk'[1].internal = <<>>
          /\ disk'[1] = BotFile(name, description, secretKey, services)]_vars

\* a store that was loaded, with a validated secret, has been saved: the file
\* holds no internal part
C17_Witness ==
    /\ savePc = "idle"
    /\ lastErr = OK
    /\ internal.location = BotPath
    /\ internal.secretValidated
    /\ internal.secret # ""
    /\ disk = Save(Bot, NoPath).file
    /\ disk # <<>>
    /\ disk[1].internal = <<>>

\* C18: when the write of a Save fails after the encryption, the services in
\* memory hold their plaintext values once the failed Save has returned, as
\* they do after a Save that completes.
C18_PlaintextAfterFailedSave ==
    [][(savePc = "writing" /\ savePc' = "idle" /\ lastErr' = IOError) =>
          services' = SaveEnd(Bot, saveFrame.hasSecret).bot.services]_vars

\* the last service of the store after newService is connected and the
\* suspended Save has resumed
ConnectedThenResumed(newService) ==
    LET c == connectService(Bot, newService).bot
        e == SaveEnd(c, saveFrame.hasSecret).bot
    IN  e.services[Len(e.services)]

\* C19: while a Save is suspended on its write the services in memory hold
\* plaintext: a call interleaved at that point (connectService,
\* disconnectService) finds no ciphertext in an encrypted property and
\* leaves none, and a service connected during the suspension holds its
\* plaintext values after the Save has resumed.
C19_PlaintextWhileSuspended ==
    /\ [][(savePc = "writing" /\ savePc' = "writing") =>
            ~HoldsCiphertext(services) /\ ~HoldsCiphertext(services')]_vars
    /\ [](savePc = "writing" =>
            \A d \in CredentialDescriptors :
                ~HasService(services, d.type, d.id) =>
                    ConnectedThenResumed(d).props = d.props)

\* C20: validateSecretKey on a store that is not validated, with a non-empty
\* secret and a non-empty verifier: when the secret cannot decrypt the
\* verifier the call raises the secret-incorrect error and changes nothing
\* (flag false, verifier unchanged), so a repeated attempt fails the same
\* way; when the secret decrypts the verifier the call succeeds, sets the
\* flag and leaves the verifier unchanged.
C20_WrongSecretRejected ==
    (~internal.secretValidated /\ internal.secret # ""
        /\ ~IsFalsyOrEmpty(secretKey)) =>
        \A u \in Tokens :
            LET r == validateSecretKey(Bot, u) IN
            IF CanDecrypt(internal.secret, secretKey)
            THEN /\ r.err = OK
                 /\ r.bot.internal.secretValidated
                 /\ r.bot.secretKey = secretKey
            ELSE /\ r.err = SecretIncorrect
                 /\ ~r.bot.internal.secretValidated
                 /\ r.bot.secretKey = secretKey
                 /\ r.bot = Bot
                 /\ validateSecretKey(r.bot, u).err = SecretIncorrect

\* a validation with a secret that does not decrypt the verifier has failed
C20_Witness ==
    /\ lastErr = SecretIncorrect
    /\ ~internal.secretValidated
    /\ internal.secret # ""
    /\ ~IsFalsyOrEmpty(secretKey)
    /\ ~CanDecrypt(internal.secret, secretKey)

-----------------------------------------------------------------------------
(* Load and the runtime-only state *)

\* C21: the store that Load returns has the runtime-only state of a new
\* instance, whatever the file holds: its secret is the one passed to Load,
\* its location the path loaded, and its validated flag is not set by the
\* file (it is set only when Load itself decrypted with a secret that
\* decrypts the verifier).
C21_RuntimeStateNotFromFile ==
    disk # <<>> =>
        \A s \in Secrets :
            LET r == Load(disk[1], BotPath, s) IN
            r.err = OK =>
                /\ r.bot.internal.secret = s
                /\ r.bot.internal.location = BotPath
                /\ r.bot.internal.secretValidated =>
                       (s # "" /\ CanDecrypt(s, disk[1].secretKey))

\* C22: Load with an empty secret, or of a file whose verifier is empty,
\* succeeds without validating anything and returns the services and the
\* verifier exactly as the file stores them (ciphertext stays ciphertext).
C22_LoadAsStored ==
    disk # <<>> =>
        \A s \in Secrets :
            (s = "" \/ IsFalsyOrEmpty(disk[1].secretKey)) =>
                LET r == Load(disk[1], BotPath, s) IN
                /\ r.err = OK
                /\ r.bot.services = disk[1].services
                /\ r.bot.secretKey = disk[1].secretKey
                /\ disk[1].internal = <<>> => ~r.bot.internal.secretValidated

\* an encrypted file has been loaded with the empty secret and the memory
\* holds its ciphertext
C22_Witness ==
    /\ lastErr = OK
    /\ savePc = "idle"
    /\ internal.secret = ""
    /\ internal.location = BotPath
    /\ ~internal.secretValidated
    /\ ~IsFalsyOrEmpty(secretKey)
    /\ disk # <<>>
    /\ services = disk[1].services
    /\ HoldsCiphertext(services)

-----------------------------------------------------------------------------
(* What a disconnect removes *)

\* after is before without its i-th element, the others in their order
RemovedExactly(before, after, i) ==
    /\ Len(after) = Len(before) - 1
    /\ \A j \in 1..Len(after) : after[j] = before[IF j < i THEN j ELSE j + 1]

FirstOf(M) == CHOOSE n \in M : \A m \in M : n <= m

\* C23: a disconnectService or disconnectServiceByNameOrId that finds a
\* match removes exactly one service, the first in insertion order that
\* matches (same type and id; id or name equal to the token), and leaves
\* the other services in their order, also when several services match.
C23_RemovesFirstMatch ==
    /\ \A k \in NameOrIdTokens :
          LET M == {n \in 1..Len(services) :
                        services[n].id = k \/ services[n].name = k}
              r == disconnectServiceByNameOrId(Bot, k)
          IN  M # {} =>
                  /\ r.err = OK
                  /\ RemovedExactly(services, r.bot.services, FirstOf(M))
    /\ \A t \in ServiceType, i \in {"a", "b"} :
          LET M == {n \in 1..Len(services) :
                        services[n].type = t /\ services[n].id = i}
              r == disconnectService(Bot, t, i)
          IN  M # {} =>
                  /\ r.err = OK
                  /\ RemovedExactly(services, r.bot.services, FirstOf(M))

\* the first of three services named Foo has been disconnected: the two
\* that remain keep their order, and one of them has the id of the removed
C23_Witness ==
    /\ lastErr = OK
    /\ Len(services) = 2
    /\ services[1].id = "a"
    /\ services[1].name = "Foo (2)"
    /\ services[2].id = "b"
    /\ services[2].name = "Foo (3)"

-----------------------------------------------------------------------------
(* Encryption layers on disk *)

\* C24: whatever load, connectService, disconnect, validateSecretKey,
\* clearSecret and Save calls were made one at a time, no value of the file
\* on disk is the encryption of an encrypted value; and a Save of a store
\* loaded with the empty secret, with a verifier and the ciphertext of the
\* file in an encrypted property, raises the secret-missing error, writes
\* nothing and leaves the store as it was.
C24_NoDoubleEncryption ==
    /\ disk # <<>> =>
          \A n \in 1..Len(disk[1].services) : \A p \in PropNames :
              Layers(disk[1].services[n].props[p]) <= 1
    /\ (internal.secret = "" /\ ~internal.secretValidated
          /\ ~IsFalsyOrEmpty(secretKey) /\ HoldsCiphertext(services)) =>
          /\ SaveBegin(Bot).err = SecretMissing
          /\ SaveBegin(Bot).bot = Bot
          /\ \A p \in {NoPath, BotPath} :
                /\ Save(Bot, p).err = SecretMissing
                /\ Save(Bot, p).bot = Bot

====
